---- MODULE Spec2Model ----
(***************************************************************************)
(* Model of the assuo patch engine: assuo/src/patch.rs, do_patch.          *)
(*                                                                         *)
(* One run of do_patch over a resolved source and a resolved patch list.   *)
(* Positions and indices are 0-based as in the Rust code; the TLA+         *)
(* sequences that hold them are 1-based, so element i of a Vec v is        *)
(* v[i + 1].                                                               *)
(***************************************************************************)
EXTENDS Integers, Sequences, FiniteSets, TLC

VARIABLES
    original,         \* the resolved base source, as it was before any edit
    file_source,      \* file.source, the byte buffer being patched
    indexes,          \* indexes: Vec<Vec<usize>>, the offset index
    file_patch,       \* file.patch: "none" (None) or "some" (Some(list))
    patches,          \* the patches the loop has taken from the list so far
    prov,             \* history: where each byte of file_source came from
    pc,               \* "apply" (in the loop), "done" (Ok returned), "panicked",
                      \* "resolve_base", "resolve_patch", "err" (Err returned)
    overflow_checks,  \* build profile: TRUE = debug (arithmetic overflow panics)
    file,             \* the unresolved AssuoFile handed to do_patch
    resolved,         \* the local Vec `patches` the resolution loop fills
    cli,              \* a run of a command-line entry point
    before            \* history: the loop state the last patch was applied to

vars == <<original, file_source, indexes, file_patch, patches, prov, pc,
          overflow_checks, file, resolved, cli, before>>

----------------------------------------------------------------------------
(* Bounds of the model *)

MaxSrcLen == 2        \* longest source
MaxEdits == 2         \* longest patch list
MaxPayloadLen == 1    \* longest inserted payload
MaxCount == 2         \* largest Remove count
UsizeBits == 16       \* width of usize in the model (64 on the real targets)
MaxArgs == 2          \* longest command line (arguments after the program name)

\* The byte values of the payloads.
Byte == {0, 1}

USIZE_MAX == 2 ^ UsizeBits - 1

\* The value an operator yields when the code panics at that point.
Panic == -1

----------------------------------------------------------------------------
(* Sequences *)

SeqsUpTo(S, n) == UNION {[1..k -> S] : k \in 0..n}

Contains(v, x) == \E j \in 1..Len(v) : v[j] = x

\* Vec::splice(start..end, repl) on a 0-based half-open range.
Splice_DropsOneMore(v, start, end, repl) ==
    SubSeq(v, 1, start) \o repl \o SubSeq(v, end + 2, Len(v))

Splice_Overwrites(v, start, end, repl) ==
    SubSeq(v, 1, start) \o repl \o SubSeq(v, end + 1 + Len(repl), Len(v))

Splice(v, start, end, repl) ==
    SubSeq(v, 1, start) \o repl \o SubSeq(v, end + 1, Len(v))

\* Vec::splice and slice indexing panic unless start <= end <= len.
RangeOk(v, start, end) == 0 <= start /\ start <= end /\ end <= Len(v)

Repeat(x, n) == [j \in 1..n |-> x]

----------------------------------------------------------------------------
(* usize arithmetic *)

\* a - b on usize: panics when overflow checks are on, wraps otherwise.
USub(a, b, checks) ==
    IF a >= b THEN a - b
    ELSE IF checks THEN Panic
    ELSE a - b + USIZE_MAX + 1

\* a + b on usize.
UAdd(a, b, checks) ==
    IF a + b <= USIZE_MAX THEN a + b
    ELSE IF checks THEN Panic
    ELSE (a + b) % (USIZE_MAX + 1)

----------------------------------------------------------------------------
(* The offset index *)

\* indexes after the initial loop: one singleton slot per source byte.
InitIndexes(source) == [j \in 1..Len(source) |-> <<j - 1>>]

\* get_index: the first slot that contains i, or a panic.
GetIndex(ixs, i) ==
    IF \E j \in 1..Len(ixs) : Contains(ixs[j], i)
    THEN (CHOOSE j \in 1..Len(ixs) :
              /\ Contains(ixs[j], i)
              /\ \A h \in 1..(j - 1) : ~Contains(ixs[h], i)) - 1
    ELSE Panic

\* The inner loop of the fold: push the elements of elem that acc lacks.
RECURSIVE PushNew(_, _)
PushNew(acc, elem) ==
    IF elem = <<>> THEN acc
    ELSE PushNew(IF Contains(acc, Head(elem)) THEN acc
                 ELSE Append(acc, Head(elem)),
                 Tail(elem))

\* The fold over the removed slots.
RECURSIVE Fold(_, _)
Fold(acc, slots) ==
    IF slots = <<>> THEN acc
    ELSE Fold(PushNew(acc, Head(slots)), Tail(slots))

----------------------------------------------------------------------------
(* Patches *)

\* AssuoPatch<Vec<u8>>: Insert {way, spot, source} and Remove {way, spot,
\* count}, as one record shape (source is empty for a Remove, count is 0
\* for an Insert).
Insert(way, spot, source) ==
    [do |-> "insert", way |-> way, spot |-> spot, source |-> source, count |-> 0]

Remove(way, spot, count) ==
    [do |-> "remove", way |-> way, spot |-> spot, source |-> <<>>, count |-> count]

Direction == {"pre", "post"}

----------------------------------------------------------------------------
(* One iteration of the patch loop, as a function of the loop state        *)
(* [source, indexes, prov, panicked].  k is the number of the patch in the *)
(* list (1-based); it only labels the inserted bytes in prov.              *)

Panicked(st) == [st EXCEPT !.panicked = TRUE]

\* The origin id an Insert looks up.
InsertTarget_SpotItself(way, spot, checks) == spot

InsertTarget(way, spot, checks) ==
    IF way = "post" THEN USub(spot, 1, checks) ELSE spot

\* The splice point of an Insert, from the index of the slot found.
InsertSplicePoint_NoStep(way, idx) == idx

InsertSplicePoint(way, idx) ==
    IF way = "post" THEN idx + 1 ELSE idx

\* The slots an Insert adds: one vec![usize::MAX] per payload byte.
SentinelSlots_Zero(source) == Repeat(<<0>>, Len(source))

SentinelSlots(source) == Repeat(<<USIZE_MAX>>, Len(source))

\* indexes.splice(insertion_point..insertion_point, ...)
InsertIndexes_NoSplice(ixs, ip, source) == ixs

InsertIndexes(ixs, ip, source) == Splice(ixs, ip, ip, SentinelSlots(source))

\* The Insert arm.
ApplyInsert(st, p, k, checks) ==
    LET target == InsertTarget(p.way, p.spot, checks)
        idx    == IF target = Panic THEN Panic ELSE GetIndex(st.indexes, target)
        ip     == IF idx = Panic THEN Panic ELSE InsertSplicePoint(p.way, idx)
    IN  IF ip = Panic \/ ~RangeOk(st.indexes, ip, ip) \/ ~RangeOk(st.source, ip, ip)
        THEN Panicked(st)
        ELSE [source   |-> Splice(st.source, ip, ip, p.source),
              indexes  |-> InsertIndexes(st.indexes, ip, p.source),
              prov     |-> Splice(st.prov, ip, ip, Repeat(-k, Len(p.source))),
              panicked |-> FALSE]

\* The start of the range a Remove deletes, from the index of the slot found.
RemoveStart_AtIdx(way, idx, count, checks) ==
    IF way = "post" THEN idx ELSE USub(idx, count, checks)

RemoveStart_Saturating(way, idx, count, checks) ==
    IF way = "post" THEN idx + 1 ELSE IF idx >= count THEN idx - count ELSE 0

RemoveStart(way, idx, count, checks) ==
    IF way = "post" THEN UAdd(idx, 1, checks) ELSE USub(idx, count, checks)

\* indexes.splice(insertion_point..(insertion_point + count), vec![fold])
RemoveIndexes_Drop(ixs, start, end) == Splice(ixs, start, end, <<>>)

RemoveIndexes(ixs, start, end) ==
    Splice(ixs, start, end, <<Fold(<<>>, SubSeq(ixs, start + 1, end))>>)

\* The Remove arm.
ApplyRemove(st, p, k, checks) ==
    LET idx   == GetIndex(st.indexes, p.spot)
        start == IF idx = Panic THEN Panic
                 ELSE RemoveStart(p.way, idx, p.count, checks)
        end   == IF start = Panic THEN Panic ELSE UAdd(start, p.count, checks)
    IN  IF end = Panic \/ ~RangeOk(st.indexes, start, end)
                       \/ ~RangeOk(st.source, start, end)
        THEN Panicked(st)
        ELSE [source   |-> Splice(st.source, start, end, <<>>),
              indexes  |-> RemoveIndexes(st.indexes, start, end),
              prov     |-> Splice(st.prov, start, end, <<>>),
              panicked |-> FALSE]

\* The match on the patch.
ApplyPatch(st, p, k, checks) ==
    IF p.do = "insert" THEN ApplyInsert(st, p, k, checks)
    ELSE ApplyRemove(st, p, k, checks)

\* The loop state before the first patch.
StartState(source) ==
    [source   |-> source,
     indexes  |-> InitIndexes(source),
     prov     |-> [j \in 1..Len(source) |-> j - 1],
     panicked |-> FALSE]

\* The whole loop over a patch list: stops at the first panic.
RECURSIVE RunFrom(_, _, _, _)
RunFrom(st, ps, k, checks) ==
    IF ps = <<>> \/ st.panicked THEN st
    ELSE RunFrom(ApplyPatch(st, Head(ps), k, checks), Tail(ps), k + 1, checks)

DoPatch(source, ps, checks) == RunFrom(StartState(source), ps, 1, checks)

----------------------------------------------------------------------------
(* The state machine *)

\* do_patch never reads a byte value, so what it does to a source depends
\* on the length of the source only.  The model takes one source of each
\* length, made of pairwise distinct bytes that no payload contains, so
\* that a byte in the wrong place always shows in the buffer.
SourceOfLen(n) == [j \in 1..n |-> j + 1]

Sources == {SourceOfLen(n) : n \in 0..MaxSrcLen}

Payloads == SeqsUpTo(Byte, MaxPayloadLen)

\* The spots a caller may write for a source of n bytes: the offsets the
\* contract allows (0..n), one past them, and the largest usize.
Spots(n) == 0..(n + 1) \cup {USIZE_MAX}

Counts == 0..MaxCount

\* The values of file, resolved and cli in the specifications that start
\* at the patch loop or do not run a command line.
NoFile == [source |-> [kind |-> "ok", bytes |-> <<>>], patch |-> <<>>]

NoCli == [entry |-> "none", argv |-> <<>>, args |-> <<>>, do_init |-> FALSE,
          stdout |-> <<>>, stderr |-> <<>>, read |-> <<>>, wrote |-> <<>>,
          exit |-> "none"]

Now == [source |-> file_source, indexes |-> indexes, prov |-> prov,
        panicked |-> FALSE]

Init ==
    /\ original \in Sources
    /\ file_source = original
    /\ indexes = InitIndexes(original)
    /\ file_patch \in {"none", "some"}
    /\ patches = <<>>
    /\ prov = [j \in 1..Len(original) |-> j - 1]
    /\ pc = "apply"
    /\ overflow_checks \in BOOLEAN
    /\ file = NoFile
    /\ resolved = <<>>
    /\ cli = NoCli
    /\ before = Now

\* The loop takes the next patch p from the list and applies it.  A panic
\* unwinds out of do_patch: nothing is returned, and the buffer and the
\* index are dropped, so the state keeps their values from before the patch.
Step(p) ==
    LET nxt == ApplyPatch(Now, p, Len(patches) + 1, overflow_checks)
    IN  /\ pc = "apply"
        /\ file_patch = "some"
        /\ Len(patches) < MaxEdits
        /\ patches' = Append(patches, p)
        /\ file_source' = nxt.source
        /\ indexes' = nxt.indexes
        /\ prov' = nxt.prov
        /\ pc' = IF nxt.panicked THEN "panicked" ELSE "apply"
        /\ before' = Now
        /\ UNCHANGED <<original, file_patch, overflow_checks, file, resolved, cli>>

DoInsert ==
    \E way \in Direction, spot \in Spots(Len(original)), source \in Payloads :
        Step(Insert(way, spot, source))

DoRemove ==
    \E way \in Direction, spot \in Spots(Len(original)), count \in Counts :
        Step(Remove(way, spot, count))

\* The list is exhausted, or file.patch was None and no patch was pushed:
\* Ok(file.source).
Finish_NoneIsEmpty ==
    /\ pc = "apply"
    /\ pc' = "done"
    /\ file_source' = IF file_patch = "none" THEN <<>> ELSE file_source
    /\ UNCHANGED <<original, indexes, file_patch, patches, prov, overflow_checks,
                   file, resolved, cli, before>>

Finish ==
    /\ pc = "apply"
    /\ pc' = "done"
    /\ UNCHANGED <<original, file_source, indexes, file_patch, patches, prov,
                   overflow_checks, file, resolved, cli, before>>

Next == DoInsert \/ DoRemove \/ Finish

Spec == Init /\ [][Next]_vars

\* The same run on the source one byte longer than the longest of Init: long
\* enough for a Remove to delete two original bytes next to its spot.
InitLong ==
    /\ original = SourceOfLen(MaxSrcLen + 1)
    /\ file_source = original
    /\ indexes = InitIndexes(original)
    /\ file_patch \in {"none", "some"}
    /\ patches = <<>>
    /\ prov = [j \in 1..Len(original) |-> j - 1]
    /\ pc = "apply"
    /\ overflow_checks \in BOOLEAN
    /\ file = NoFile
    /\ resolved = <<>>
    /\ cli = NoCli
    /\ before = Now

SpecLong == InitLong /\ [][Next]_vars

----------------------------------------------------------------------------
(* The whole of do_patch, from an unresolved AssuoFile *)

\* An AssuoSource, by what resolving it gives: Ok(bytes), Err(io::Error),
\* or, for a nested patch file, a panic inside the nested do_patch.
SourceOk(bytes) == [kind |-> "ok", bytes |-> bytes]

SourceFails(kind) == [kind |-> kind, bytes |-> <<>>]

FileBases ==
    {SourceOk(SourceOfLen(MaxSrcLen)), SourceFails("err"), SourceFails("panic")}

FilePayloads ==
    {SourceOk(<<b>>) : b \in Byte} \cup {SourceFails("err"), SourceFails("panic")}

FileSpots == {0, 1}

\* The patches of an unresolved file: their source is an AssuoSource.
FilePatches ==
    {Insert(way, spot, src) : way \in Direction, spot \in FileSpots, src \in FilePayloads}
    \cup {Remove(way, spot, 1) : way \in Direction, spot \in FileSpots}

\* What AssuoPatch::resolve gives for p: only an Insert resolves a source.
ResolveKind(p) == IF p.do = "insert" THEN p.source.kind ELSE "ok"

ResolvedPatch(p) ==
    IF p.do = "insert" THEN Insert(p.way, p.spot, p.source.bytes) ELSE p

InitFile ==
    /\ file \in [source : FileBases, patch : SeqsUpTo(FilePatches, MaxEdits)]
    /\ file_patch \in (IF file.patch = <<>> THEN {"none", "some"} ELSE {"some"})
    /\ original = file.source.bytes
    /\ file_source = <<>>
    /\ indexes = <<>>
    /\ patches = <<>>
    /\ prov = <<>>
    /\ pc = "resolve_base"
    /\ overflow_checks \in BOOLEAN
    /\ resolved = <<>>
    /\ cli = NoCli
    /\ before = Now

\* How a resolution that does not give Ok leaves do_patch: `?` returns
\* the Err, a panic unwinds.
Failed(kind) == IF kind = "err" THEN "err" ELSE "panicked"

\* let mut file = file.resolve().await?;
ResolveBase ==
    /\ pc = "resolve_base"
    /\ IF file.source.kind = "ok"
       THEN /\ file_source' = file.source.bytes
            /\ prov' = [j \in 1..Len(file.source.bytes) |-> j - 1]
            /\ pc' = "resolve_patch"
       ELSE /\ pc' = Failed(file.source.kind)
            /\ UNCHANGED <<file_source, prov>>
    /\ UNCHANGED <<original, indexes, file_patch, patches, overflow_checks,
                   file, resolved, cli, before>>

\* The patch the resolution loop takes next from file.patch.
NextToResolve_FromEnd == file.patch[Len(file.patch) - Len(resolved)]

NextToResolve == file.patch[Len(resolved) + 1]

\* patches.push(patch.resolve().await?);
ResolvePatch ==
    /\ pc = "resolve_patch"
    /\ Len(resolved) < Len(file.patch)
    /\ IF ResolveKind(NextToResolve) = "ok"
       THEN /\ resolved' = Append(resolved, ResolvedPatch(NextToResolve))
            /\ UNCHANGED pc
       ELSE /\ pc' = Failed(ResolveKind(NextToResolve))
            /\ UNCHANGED resolved
    /\ UNCHANGED <<original, file_source, indexes, file_patch, patches, prov,
                   overflow_checks, file, cli, before>>

\* The resolution loop is over (or file.patch was None): the index is built.
BuildIndex ==
    /\ pc = "resolve_patch"
    /\ Len(resolved) = Len(file.patch)
    /\ indexes' = InitIndexes(file_source)
    /\ pc' = "apply"
    /\ UNCHANGED <<original, file_source, file_patch, patches, prov,
                   overflow_checks, file, resolved, cli, before>>

\* The patch the patch loop takes next from the resolved list.
NextPatch_FromEnd == resolved[Len(resolved) - Len(patches)]

NextPatch == resolved[Len(patches) + 1]

\* for patch in patches { ... }
TakePatch ==
    /\ Len(patches) < Len(resolved)
    /\ Step(NextPatch)

\* The patch loop is over: Ok(file.source).
Return ==
    /\ Len(patches) = Len(resolved)
    /\ Finish

NextFile == ResolveBase \/ ResolvePatch \/ BuildIndex \/ TakePatch \/ Return

SpecFile == InitFile /\ [][NextFile]_vars

----------------------------------------------------------------------------
(* The command-line entry points: assuo-cli/src/main.rs and the older      *)
(* src/main.rs.  An argument is the sequence of its characters.            *)

ArgHelp == <<"-", "-", "h", "e", "l", "p">>
ArgH == <<"-", "h">>
ArgSlashQ == <<"/", "?">>
ArgSlashHelp == <<"/", "h", "e", "l", "p">>
ArgInit == <<"-", "-", "i", "n", "i", "t">>
ArgI == <<"-", "i">>
ArgUrl == <<"-", "-", "u", "r", "l">>
ArgX == <<"x">>

CliArgs == {ArgHelp, ArgH, ArgSlashQ, ArgSlashHelp, ArgInit, ArgI, ArgUrl, ArgX}

\* str::starts_with
StartsWith(a, pre) == Len(a) >= Len(pre) /\ SubSeq(a, 1, Len(pre)) = pre

\* What the two help() print, by the words the text contains.
HelpText(entry) ==
    IF entry = "assuo-cli" THEN <<"OVERVIEW", "USAGE", "--init", "--help">>
    ELSE <<"OVERVIEW", "USAGE", "--url", "--file", "--init", "--help">>

\* help(): eprintln! in assuo-cli, println! in the older main.
Help(c) ==
    IF c.entry = "assuo-cli"
    THEN [c EXCEPT !.stderr = @ \o HelpText(c.entry)]
    ELSE [c EXCEPT !.stdout = @ \o HelpText(c.entry)]

\* A panic of the main thread: the message goes to stderr, exit code 101.
CliPanic(c) == [c EXCEPT !.stderr = Append(@, "panicked"), !.exit = "101"]

\* main returns or calls std::process::exit(0).
CliExit(c) == [c EXCEPT !.exit = "0"]

\* Reading a document (stdin or a file), parsing and patching it, and
\* writing the result to stdout; ok is whether all of that succeeds.
CliPatch(c, doc, ok) ==
    LET r == [c EXCEPT !.read = Append(@, doc)]
    IN  IF ok THEN CliExit([r EXCEPT !.stdout = Append(@, "patched")])
        ELSE CliPanic(r)

\* init() of assuo-cli: the template goes to stdout.
CliInitNew(c) == [c EXCEPT !.stdout = Append(@, "[source]")]

\* init(file_name) of the older main: the template goes to a new file.
CliInitOld(c, name, ok) ==
    IF ok THEN CliExit([c EXCEPT !.wrote = Append(@, name)]) ELSE CliPanic(c)

InitCli ==
    /\ cli \in [entry : {"assuo-cli", "src"}, argv : SeqsUpTo(CliArgs, MaxArgs),
                args : {<<>>}, do_init : {FALSE}, stdout : {<<>>}, stderr : {<<>>},
                read : {<<>>}, wrote : {<<>>}, exit : {"start"}]
    /\ original = <<>>
    /\ file_source = <<>>
    /\ indexes = <<>>
    /\ file_patch = "none"
    /\ patches = <<>>
    /\ prov = <<>>
    /\ pc = "apply"
    /\ overflow_checks = TRUE
    /\ file = NoFile
    /\ resolved = <<>>
    /\ before = Now

CliFrame ==
    UNCHANGED <<original, file_source, indexes, file_patch, patches, prov, pc,
                overflow_checks, file, resolved, before>>

\* args.skip(1)
MainStart ==
    /\ cli.exit = "start"
    /\ cli' = [cli EXCEPT !.args = cli.argv, !.exit = "running"]
    /\ CliFrame

\* One iteration of the argument loop of assuo-cli.
NewMainArg ==
    /\ cli.entry = "assuo-cli"
    /\ cli.exit = "running"
    /\ cli.args # <<>>
    /\ LET arg == Head(cli.args)
       IN  cli' = IF arg = ArgInit \/ arg = ArgI THEN CliExit(CliInitNew(cli))
                  ELSE IF arg = ArgHelp \/ arg = ArgH \/ arg = ArgSlashQ
                       THEN CliExit(Help(cli))
                  ELSE [cli EXCEPT !.args = Tail(@)]
    /\ CliFrame

\* After the loop of assuo-cli: the document on stdin is patched.
NewMainPatch ==
    /\ cli.entry = "assuo-cli"
    /\ cli.exit = "running"
    /\ cli.args = <<>>
    /\ \E ok \in BOOLEAN : cli' = CliPatch(cli, "stdin", ok)
    /\ CliFrame

\* The number of characters the older main trims from an argument.
TrimForArg(arg) ==
    IF StartsWith(arg, <<"-", "-">>) THEN 2
    ELSE IF StartsWith(arg, <<"-">>) THEN 1
    ELSE IF StartsWith(arg, <<"/">>) THEN 1
    ELSE 0

Trimmed(arg) == SubSeq(arg, TrimForArg(arg) + 1, Len(arg))

\* One iteration of the argument loop of the older main.
OldMainArg ==
    /\ cli.entry = "src"
    /\ cli.exit = "running"
    /\ cli.args # <<>>
    /\ LET arg == Head(cli.args)
           t   == Trimmed(arg)
       IN  \E ok \in BOOLEAN :
               cli' = IF cli.do_init THEN CliInitOld(cli, arg, ok)
                      ELSE IF TrimForArg(arg) > 0
                           THEN IF t = <<"?">> \/ t = <<"h">> \/ t = <<"h", "e", "l", "p">>
                                THEN CliExit(Help(cli))
                                ELSE IF t = <<"i">> \/ t = <<"i", "n", "i", "t">>
                                     THEN [cli EXCEPT !.do_init = TRUE, !.args = Tail(@)]
                                     ELSE [cli EXCEPT !.args = Tail(@)]
                           ELSE CliPatch(cli, arg, ok)
    /\ CliFrame

\* After the loop of the older main.
OldMainEnd ==
    /\ cli.entry = "src"
    /\ cli.exit = "running"
    /\ cli.args = <<>>
    /\ \E ok \in BOOLEAN :
           cli' = IF cli.do_init THEN CliInitOld(cli, <<"assuo.toml">>, ok)
                  ELSE CliPatch(cli, <<"assuo.toml">>, ok)
    /\ CliFrame

NextCli == MainStart \/ NewMainArg \/ NewMainPatch \/ OldMainArg \/ OldMainEnd

SpecCli == InitCli /\ [][NextCli]_vars

TypeOK ==
    /\ original \in Sources \cup {SourceOfLen(MaxSrcLen + 1)}
    /\ pc \in {"resolve_base", "resolve_patch", "apply", "done", "panicked", "err"}
    /\ Len(patches) <= MaxEdits
    /\ Len(prov) = Len(file_source)

----------------------------------------------------------------------------
(* Vocabulary of the properties *)

N == Len(original)

\* source[a..b] of the original, 0-based and half-open.
Orig(a, b) == SubSeq(original, a + 1, b)

\* The origin ids a..b-1 in order.
Ids(a, b) == [j \in 1..(b - a) |-> a + j - 1]

Returned == pc = "done"

IsInsert(p, way) == p.do = "insert" /\ p.way = way

\* The spots at which an Insert of the given direction resolves on the
\* unedited buffer: Post looks up id spot - 1, Pre looks up id spot.
Resolves(way, spot) ==
    IF way = "post" THEN spot \in 1..N ELSE spot \in 0..(N - 1)

Other(way) == IF way = "post" THEN "pre" ELSE "post"

\* All orderings of a list.
Perms(ps) ==
    LET D == 1..Len(ps)
    IN  {[j \in D |-> ps[f[j]]] : f \in {g \in [D -> D] : \A a, b \in D : a # b => g[a] # g[b]}}

\* The same list through the pure loop.
Rerun(ps) == DoPatch(original, ps, overflow_checks)

----------------------------------------------------------------------------
(* C1: after edits that were applied successfully, every surviving         *)
(* original byte i sits at the buffer position of the slot that contains   *)
(* id i (the offset index is parallel to the buffer).                      *)
C1_IndexParallel ==
    pc # "panicked" =>
        \A j \in 1..Len(prov) :
            prov[j] >= 0 => GetIndex(indexes, prov[j]) = j - 1

(* C2: after every applied edit the offset index has as many slots as the  *)
(* buffer has bytes.                                                       *)
C2_SameLength ==
    pc # "panicked" => Len(indexes) = Len(file_source)

\* A patch the contract of section 4.1 calls well-formed: the spot is an
\* offset of the original (0..N) and a Remove has count bytes on its side.
WellFormed(p) ==
    /\ p.spot \in 0..N
    /\ p.do = "remove" =>
           IF p.way = "pre" THEN p.count <= p.spot
           ELSE p.count <= N - p.spot - 1

(* C3: do_patch does not fail on a list of well-formed patches.            *)
C3_NeverFails ==
    (\A j \in 1..Len(patches) : WellFormed(patches[j])) => pc # "panicked"

(* C4: a single Insert of payload P at a spot where its direction resolves *)
(* gives source[0..spot] ++ P ++ source[spot..n], and where both           *)
(* directions resolve they give the same buffer.                           *)
C4_SingleInsert ==
    (Len(patches) = 1 /\ patches[1].do = "insert"
                      /\ Resolves(patches[1].way, patches[1].spot)) =>
        LET p == patches[1]
            q == Insert(Other(p.way), p.spot, p.source)
        IN  /\ pc # "panicked"
            /\ file_source = Orig(0, p.spot) \o p.source \o Orig(p.spot, N)
            /\ Resolves(q.way, q.spot) =>
                   /\ ~Rerun(<<q>>).panicked
                   /\ Rerun(<<q>>).source = file_source

C4_Witness ==
    /\ Returned
    /\ Len(patches) = 1
    /\ IsInsert(patches[1], "post")
    /\ patches[1].spot \in 1..(N - 1)
    /\ patches[1].source # <<>>
    /\ file_source = Orig(0, patches[1].spot) \o patches[1].source
                         \o Orig(patches[1].spot, N)

\* Two inserts of one direction at one spot, and nothing else.
TwoInserts(way) ==
    /\ Len(patches) = 2
    /\ IsInsert(patches[1], way)
    /\ IsInsert(patches[2], way)
    /\ patches[1].spot = patches[2].spot

(* C5: two Post inserts at one spot s in 1..n, A listed before B, give     *)
(* source[0..s] ++ B ++ A ++ source[s..n].                                 *)
C5_TwoPostBytes ==
    (TwoInserts("post") /\ patches[1].spot \in 1..N) =>
        LET s == patches[1].spot
        IN  /\ pc # "panicked"
            /\ file_source = Orig(0, s) \o patches[2].source
                                 \o patches[1].source \o Orig(s, N)

C5_Witness ==
    /\ Returned
    /\ TwoInserts("post")
    /\ patches[1].spot \in 1..N
    /\ patches[1].source # <<>>
    /\ patches[2].source # <<>>
    /\ patches[1].source # patches[2].source
    /\ SubSeq(file_source, patches[1].spot + 1,
              patches[1].spot + Len(patches[2].source)) = patches[2].source

(* C6: two Pre inserts at one spot s in 0..n-1, A listed before B, give    *)
(* source[0..s] ++ A ++ B ++ source[s..n].                                 *)
C6_TwoPreBytes ==
    (TwoInserts("pre") /\ patches[1].spot \in 0..(N - 1)) =>
        LET s == patches[1].spot
        IN  /\ pc # "panicked"
            /\ file_source = Orig(0, s) \o patches[1].source
                                 \o patches[2].source \o Orig(s, N)

C6_Witness ==
    /\ Returned
    /\ TwoInserts("pre")
    /\ patches[1].spot \in 0..(N - 1)
    /\ patches[1].source # <<>>
    /\ patches[2].source # <<>>
    /\ patches[1].source # patches[2].source
    /\ SubSeq(file_source, patches[1].spot + 1,
              patches[1].spot + Len(patches[1].source)) = patches[1].source

(* C7 as stated: of two Post inserts at one spot, the bytes of the one     *)
(* applied first come directly after an original byte and the bytes of the *)
(* one applied second come after them (list order in the output).          *)
C7_PostListOrder ==
    (TwoInserts("post") /\ pc # "panicked") =>
        \E c \in 0..N :
            prov = Ids(0, c) \o Repeat(-1, Len(patches[1].source))
                       \o Repeat(-2, Len(patches[2].source)) \o Ids(c, N)

(* C7 as amended: of two Post inserts at one spot s, both applied, the     *)
(* bytes of the one applied second come directly after original byte s-1   *)
(* and the bytes of the one applied first come directly after those        *)
(* (reverse of list order in the output).                                  *)
C7_PostReverseOrder ==
    (TwoInserts("post") /\ pc # "panicked") =>
        LET s == patches[1].spot
        IN  /\ s \in 1..N
            /\ prov = Ids(0, s) \o Repeat(-2, Len(patches[2].source))
                          \o Repeat(-1, Len(patches[1].source)) \o Ids(s, N)

C7_Witness ==
    /\ Returned
    /\ TwoInserts("post")
    /\ patches[1].source # <<>>
    /\ patches[2].source # <<>>
    /\ prov[patches[1].spot + 1] = -2
    /\ prov[patches[1].spot + Len(patches[2].source) + 1] = -1

(* C8 as stated: of two Pre inserts at one spot, the bytes of the one      *)
(* applied first come directly before an original byte and the bytes of    *)
(* the one applied second come before them (reverse of list order).        *)
C8_PreReverseOrder ==
    (TwoInserts("pre") /\ pc # "panicked") =>
        \E c \in 0..N :
            prov = Ids(0, c) \o Repeat(-2, Len(patches[2].source))
                       \o Repeat(-1, Len(patches[1].source)) \o Ids(c, N)

(* C8 as amended: of two Pre inserts at one spot s, both applied, the      *)
(* bytes of the one applied second come directly before original byte s    *)
(* and the bytes of the one applied first come directly before those       *)
(* (list order in the output).                                             *)
C8_PreListOrder ==
    (TwoInserts("pre") /\ pc # "panicked") =>
        LET s == patches[1].spot
        IN  /\ s \in 0..(N - 1)
            /\ prov = Ids(0, s) \o Repeat(-1, Len(patches[1].source))
                          \o Repeat(-2, Len(patches[2].source)) \o Ids(s, N)

C8_Witness ==
    /\ Returned
    /\ TwoInserts("pre")
    /\ patches[1].source # <<>>
    /\ patches[2].source # <<>>
    /\ prov[patches[1].spot + 1] = -1
    /\ prov[patches[1].spot + Len(patches[1].source) + 1] = -2
    /\ prov[Len(prov)] = N - 1

\* A list of two or more Post inserts at pairwise distinct spots, each a
\* spot at which a Post insert resolves.
DistinctPostInserts ==
    /\ Len(patches) >= 2
    /\ \A j \in 1..Len(patches) :
           IsInsert(patches[j], "post") /\ patches[j].spot \in 1..N
    /\ \A a, b \in 1..Len(patches) : a # b => patches[a].spot # patches[b].spot

MixedPair ==
    /\ Len(patches) = 2
    /\ patches[1].do = "insert"
    /\ patches[2].do = "insert"
    /\ patches[1].way # patches[2].way
    /\ patches[1].spot = patches[2].spot
    /\ patches[1].spot \in 1..(N - 1)

(* C10: a Pre and a Post insert at one spot where both resolve give the    *)
(* same final buffer in both list orders.                                  *)
C10_MixedCommute ==
    MixedPair =>
        /\ pc # "panicked"
        /\ ~Rerun(<<patches[2], patches[1]>>).panicked
        /\ Rerun(<<patches[2], patches[1]>>).source = file_source

C10_Witness ==
    /\ Returned
    /\ MixedPair
    /\ IsInsert(patches[1], "pre")
    /\ patches[1].source # <<>>
    /\ patches[2].source # <<>>
    /\ patches[1].source # patches[2].source
    /\ Rerun(<<patches[2], patches[1]>>).source = file_source

----------------------------------------------------------------------------
(* Vocabulary of the properties about the last patch taken *)

Last == patches[Len(patches)]

\* The loop state the last patch was applied to.
Before == before

\* The original offsets whose bytes are no longer in the buffer of st.
RemovedIds(st) == {i \in 0..(N - 1) : ~Contains(st.prov, i)}

\* The bytes of st that come from original offsets below / above spot.
Below(st, spot) == SelectSeq(st.prov, LAMBDA x : x >= 0 /\ x < spot)

Above(st, spot) == SelectSeq(st.prov, LAMBDA x : x > spot)

\* A Remove followed by one more patch whose spot is an original offset the
\* Remove deleted.  The Post insert at spot 0, which fails on any buffer
\* (C3), is left out.
RemoveThenInside ==
    /\ Len(patches) = 2
    /\ patches[1].do = "remove"
    /\ Last.spot \in RemovedIds(Before)
    /\ ~(IsInsert(Last, "post") /\ Last.spot = 0)

\* The count of a Remove fits the bytes the buffer of st has on its side of
\* the place where the removed range was.
CountFits(p, st) ==
    IF p.way = "pre" THEN p.count <= Len(Below(st, p.spot))
    ELSE p.count <= Len(Above(st, p.spot))

(* C11: after a Remove, a later Insert, or a later Remove whose count fits, *)
(* at an original offset inside the removed range is applied without       *)
(* failure.                                                                *)
C11_RemovedSpotApplies ==
    (RemoveThenInside /\ (Last.do = "remove" => CountFits(Last, Before)))
        => pc # "panicked"

(* C12: after a Remove, a later Insert at an original offset inside the    *)
(* removed range puts its payload where the range was: directly after the  *)
(* last surviving byte before it and directly before the first surviving   *)
(* byte after it.                                                          *)
C12_InsertAtCollapsePoint ==
    (RemoveThenInside /\ Last.do = "insert") =>
        /\ pc # "panicked"
        /\ prov = Below(Before, Last.spot) \o Repeat(-2, Len(Last.source))
                      \o Above(Before, Last.spot)

(* C13: with an empty patch list, or with no patch list, do_patch returns  *)
(* the resolved source bytes unchanged.                                    *)
C13_EmptyListIdentity ==
    (Returned /\ patches = <<>>) => file_source = original

C13_Witness ==
    /\ Returned
    /\ file_patch = "none"
    /\ patches = <<>>
    /\ original # <<>>
    /\ file_source = original

\* The origin id the last patch looked up (Panic when computing it
\* already panicked).
LastTarget ==
    IF Last.do = "insert"
    THEN InsertTarget(Last.way, Last.spot, overflow_checks)
    ELSE Last.spot

\* The slot the last patch resolved to in the index it was applied to.
LastIndex ==
    IF LastTarget = Panic THEN Panic ELSE GetIndex(Before.indexes, LastTarget)

\* The last patch looked up an id that no slot contained.
LookupFailed ==
    /\ Len(patches) >= 1
    /\ LastTarget # Panic
    /\ LastIndex = Panic

(* C14: when the spot of an edit is in no slot of the offset index,        *)
(* do_patch ends with an error result for its caller (Err), not with a     *)
(* crash.                                                                  *)
C14_TypedOutOfBounds ==
    LookupFailed => pc = "err"

\* The range the last patch, a Remove, asks for, in unbounded integers.
AskedStart ==
    IF Last.way = "post" THEN LastIndex + 1 ELSE LastIndex - Last.count

AskedEnd == AskedStart + Last.count

\* The last patch is a Remove whose spot resolved and whose range leaves
\* the buffer it was applied to.
RemoveOutOfBuffer ==
    /\ Len(patches) >= 1
    /\ Last.do = "remove"
    /\ LastIndex # Panic
    /\ (AskedStart < 0 \/ AskedEnd > Len(Before.source))

(* C15: a Remove whose range would start before position 0 or end past    *)
(* the end of the current buffer makes the call fail: nothing is returned  *)
(* and no part of the buffer is removed.                                   *)
C15_BadRangeFails ==
    RemoveOutOfBuffer =>
        /\ pc = "panicked"
        /\ file_source = Before.source

\* The range fits the index, which an earlier Remove left longer than the
\* buffer, but not the buffer.
C15_Witness ==
    /\ pc = "panicked"
    /\ Len(patches) = 2
    /\ RemoveOutOfBuffer
    /\ Last.count >= 1
    /\ AskedStart >= 0
    /\ AskedEnd <= Len(Before.indexes)

\* Patch j of the list is a Remove with count 0 whose spot was in a slot
\* of the index when the loop reached it.
ZeroRemoveAt(j) ==
    /\ patches[j].do = "remove"
    /\ patches[j].count = 0
    /\ LET st == Rerun(SubSeq(patches, 1, j - 1))
       IN  ~st.panicked /\ GetIndex(st.indexes, patches[j].spot) # Panic

\* The list without patch j.
Without(j) == SubSeq(patches, 1, j - 1) \o SubSeq(patches, j + 1, Len(patches))

(* C16: a Remove with count 0 at a resolvable spot is a no-op: the list    *)
(* without it succeeds exactly when the list with it does, and with the    *)
(* same final buffer.                                                      *)
C16_ZeroRemoveNoOp ==
    \A j \in 1..Len(patches) :
        ZeroRemoveAt(j) =>
            LET r == Rerun(Without(j))
            IN  /\ r.panicked <=> pc = "panicked"
                /\ pc # "panicked" => r.source = file_source

(* C17: an Insert Pre at spot 0, applied as the first edit, succeeds and   *)
(* puts its payload at the start of the buffer, whatever the source.       *)
C17_PreAtZeroPrepends ==
    (Len(patches) = 1 /\ IsInsert(Last, "pre") /\ Last.spot = 0) =>
        /\ pc # "panicked"
        /\ file_source = Last.source \o original

\* A single Post insert on the unedited buffer.
SinglePost == Len(patches) = 1 /\ IsInsert(Last, "post")

(* C18 as stated: a Post insert whose spot is the index of the last        *)
(* original byte puts its payload after that byte, at the end of the       *)
(* buffer (here for sources of two or more bytes).                         *)
C18_PostAtLastIndexAppends ==
    (SinglePost /\ N >= 2 /\ Last.spot = N - 1) =>
        /\ pc # "panicked"
        /\ prov = Ids(0, N) \o Repeat(-1, Len(Last.source))

(* C18 as amended: a Post insert appends when its spot is the length of    *)
(* the (non-empty) source; with the index of the last byte as its spot the *)
(* payload goes directly before the last byte.                             *)
C18_PostAtLengthAppends ==
    /\ (SinglePost /\ N >= 1 /\ Last.spot = N) =>
           /\ pc # "panicked"
           /\ prov = Ids(0, N) \o Repeat(-1, Len(Last.source))
           /\ SubSeq(file_source, N + 1, Len(file_source)) = Last.source
    /\ (SinglePost /\ N >= 2 /\ Last.spot = N - 1) =>
           /\ pc # "panicked"
           /\ prov = Ids(0, N - 1) \o Repeat(-1, Len(Last.source)) \o Ids(N - 1, N)

C18_Witness ==
    /\ Returned
    /\ SinglePost
    /\ N >= 2
    /\ Last.spot = N
    /\ Last.source # <<>>
    /\ prov[Len(prov)] = -1
    /\ prov[N] = N - 1

\* The slots of the index that contain id i.
SlotsOf(i) == {j \in 1..Len(indexes) : Contains(indexes[j], i)}

(* C19: in every state of a run each original id 0..n-1 is in exactly one  *)
(* slot of the offset index.                                               *)
C19_EachIdInOneSlot ==
    \A i \in 0..(N - 1) : Cardinality(SlotsOf(i)) = 1

\* A Remove has folded an original id and another id into one slot, after
\* an Insert had added slots.
C19_Witness ==
    /\ Returned
    /\ Len(patches) = 2
    /\ patches[1].do = "insert"
    /\ Last.do = "remove"
    /\ \E j \in 1..Len(indexes) :
           /\ Len(indexes[j]) >= 2
           /\ \E i \in 0..(N - 1) : Contains(indexes[j], i)
    /\ \A i \in 0..(N - 1) : Cardinality(SlotsOf(i)) = 1

(* C20: no spot a caller supplies resolves to a slot created by an Insert: *)
(* a lookup of the last edit that succeeds was for an original id, and the *)
(* slot it returns is not the slot of an inserted byte.                    *)
C20_NeverResolvesToInserted ==
    (Len(patches) >= 1 /\ LastIndex # Panic) =>
        /\ LastTarget \in 0..(N - 1)
        /\ Before.indexes[LastIndex + 1] # <<USIZE_MAX>>

----------------------------------------------------------------------------
(* Properties of the whole of do_patch (SpecFile) *)

\* The patches the loop has taken are the first ones of the resolved list,
\* in the order of the list, each once.
TakenInOrder ==
    /\ Len(patches) <= Len(resolved)
    /\ patches = SubSeq(resolved, 1, Len(patches))

(* C21: do_patch applies the edits in list order, each exactly once and    *)
(* each to the state the previous one left, and returns after the last     *)
(* edit: the edits taken are always a prefix of the list, the buffer and   *)
(* the index are those of applying that prefix in order, a panic is the    *)
(* panic of the last edit taken, and Ok is returned only when the whole    *)
(* list has been taken.                                                    *)
C21_ListOrderOnce ==
    /\ pc \in {"apply", "done", "panicked"} => TakenInOrder
    /\ pc \in {"apply", "done"} =>
           /\ ~Rerun(patches).panicked
           /\ file_source = Rerun(patches).source
           /\ indexes = Rerun(patches).indexes
    /\ (pc = "panicked" /\ patches # <<>>) =>
           LET prev == Rerun(SubSeq(patches, 1, Len(patches) - 1))
           IN  /\ ~prev.panicked
               /\ Rerun(patches).panicked
               /\ file_source = prev.source
               /\ before = prev
    /\ pc = "done" => patches = resolved

\* A returned run of two edits whose order matters.
C21_Witness ==
    /\ Returned
    /\ Len(file.patch) = 2
    /\ patches = resolved
    /\ file_source = Rerun(resolved).source
    /\ Rerun(<<resolved[2], resolved[1]>>).source # file_source

----------------------------------------------------------------------------
(* Properties of the command line (SpecCli) *)

\* The arguments an entry point acts on.
Recognised(entry, arg) ==
    IF entry = "assuo-cli"
    THEN arg \in {ArgHelp, ArgH, ArgSlashQ, ArgInit, ArgI}
    ELSE \/ TrimForArg(arg) = 0
         \/ Trimmed(arg) \in {<<"?">>, <<"h">>, <<"h", "e", "l", "p">>,
                              <<"i">>, <<"i", "n", "i", "t">>}

FirstRecognisedIsHelp ==
    \E k \in 1..Len(cli.argv) :
        /\ cli.argv[k] \in {ArgHelp, ArgH, ArgSlashQ}
        /\ \A j \in 1..(k - 1) : ~Recognised(cli.entry, cli.argv[j])

(* C22: in both entry points, when the first recognised argument is        *)
(* --help, -h or /?, the program writes the usage text with "USAGE" to     *)
(* stderr and nothing to stdout, and exits successfully without reading    *)
(* or patching a document.                                                 *)
C22_HelpToStderr ==
    (FirstRecognisedIsHelp /\ cli.exit \in {"0", "101"}) =>
        /\ Contains(cli.stderr, "USAGE")
        /\ cli.stdout = <<>>
        /\ cli.exit = "0"
        /\ cli.read = <<>>
        /\ cli.wrote = <<>>

----------------------------------------------------------------------------
(* Properties of the two arms of the patch loop (Spec) *)

LastIsInsert == Len(patches) >= 1 /\ Last.do = "insert"

LastIsRemove == Len(patches) >= 1 /\ Last.do = "remove"

\* The buffer and the index after splicing the payload of the last patch
\* into the loop state b at the slot that contains origin id t (at its
\* index for Pre, one after it for Post).
InsertedAtSlotOf(b, t) ==
    LET idx == GetIndex(b.indexes, t)
        ip  == IF Last.way = "post" THEN idx + 1 ELSE idx
    IN  /\ idx # Panic
        /\ file_source = Splice(b.source, ip, ip, Last.source)
        /\ indexes = Splice(b.indexes, ip, ip,
                            Repeat(<<USIZE_MAX>>, Len(Last.source)))

(* C23 as stated: an Insert that is applied resolves the slot that         *)
(* contains origin id spot itself, and splices its payload at that slot's  *)
(* index for Pre and at that index + 1 for Post.                           *)
C23_ResolvesSpotItself ==
    (LastIsInsert /\ pc # "panicked") =>
        LET b == Before IN InsertedAtSlotOf(b, Last.spot)

(* C23 amended: an Insert that is applied resolves the slot that contains  *)
(* origin id spot for Pre and origin id spot - 1 (in usize arithmetic) for *)
(* Post, and splices its payload at that slot's index for Pre and at that  *)
(* index + 1 for Post.                                                     *)
C23_ResolvesSpotOrBefore ==
    (LastIsInsert /\ pc # "panicked") =>
        LET b == Before
        IN  InsertedAtSlotOf(b, IF Last.way = "post"
                                THEN (Last.spot - 1) % (USIZE_MAX + 1)
                                ELSE Last.spot)

\* A Post insert was applied where the slot of spot itself would have put
\* the payload somewhere else.
C23_Witness ==
    /\ LastIsInsert
    /\ pc # "panicked"
    /\ Last.way = "post"
    /\ Last.spot \in 1..(N - 1)
    /\ Last.source # <<>>
    /\ InsertedAtSlotOf(Before, Last.spot - 1)
    /\ ~InsertedAtSlotOf(Before, Last.spot)

\* The slot the last patch, a Remove, resolved to in the loop state b, and
\* the start of the range C24 names for it.
RemoveIdx(b) == GetIndex(b.indexes, Last.spot)

RangeStart(idx) == IF Last.way = "post" THEN idx + 1 ELSE idx - Last.count

(* C24: a Remove that is applied resolves idx = get_index(spot) and        *)
(* deletes exactly the buffer positions [idx+1, idx+1+count) for Post and  *)
(* [idx-count, idx) for Pre; the byte at position idx stays in the buffer. *)
C24_RemoveRange ==
    (LastIsRemove /\ pc # "panicked") =>
        LET b   == Before
            idx == RemoveIdx(b)
            s   == RangeStart(idx)
        IN  /\ idx # Panic
            /\ s >= 0
            /\ s + Last.count <= Len(b.source)
            /\ file_source = Splice(b.source, s, s + Last.count, <<>>)
            /\ prov = Splice(b.prov, s, s + Last.count, <<>>)
            /\ idx < Len(b.source) =>
                   LET at == IF Last.way = "post" THEN idx ELSE idx - Last.count
                   IN  /\ at < Len(file_source)
                       /\ file_source[at + 1] = b.source[idx + 1]
                       /\ prov[at + 1] = b.prov[idx + 1]

\* A Post Remove of at least one byte was applied after another edit.
C24_Witness ==
    /\ LastIsRemove
    /\ Len(patches) = 2
    /\ pc # "panicked"
    /\ Last.way = "post"
    /\ Last.count >= 1
    /\ RemoveIdx(Before) < Len(Before.source)
    /\ Len(file_source) = Len(Before.source) - Last.count
    /\ Contains(prov, Before.prov[RemoveIdx(Before) + 1])

(* C25: a Remove whose direction is not Pre removes count positions        *)
(* counted from the spot itself: on an unedited buffer the byte at         *)
(* original offset spot is the first byte removed.                         *)
C25_PostRemovesFromSpot ==
    (Len(patches) = 1 /\ LastIsRemove /\ Last.way = "post" /\ Last.count >= 1
         /\ Last.spot + Last.count <= N) =>
        /\ pc # "panicked"
        /\ prov = Ids(0, Last.spot) \o Ids(Last.spot + Last.count, N)

\* The set of the ids of a slot.
IdSet(slot) == {slot[j] : j \in 1..Len(slot)}

(* C26: a Remove that is applied replaces the slots of the removed range   *)
(* in the offset index by one slot whose set is the union of the id sets   *)
(* of the removed slots, and leaves the slots before and after the range   *)
(* unchanged in content and order.                                         *)
C26_RemoveFoldsRange ==
    (LastIsRemove /\ pc # "panicked") =>
        LET old == Before.indexes
            s == RangeStart(GetIndex(old, Last.spot))
            e == s + Last.count
        IN  /\ Len(indexes) = Len(old) - Last.count + 1
            /\ SubSeq(indexes, 1, s) = SubSeq(old, 1, s)
            /\ SubSeq(indexes, s + 2, Len(indexes)) = SubSeq(old, e + 1, Len(old))
            /\ IdSet(indexes[s + 1]) = UNION {IdSet(old[j]) : j \in (s + 1)..e}
            /\ Cardinality(IdSet(indexes[s + 1])) = Len(indexes[s + 1])

\* A Remove folded two slots with different ids into one, with a slot left
\* on at least one side of the range.
C26_Witness ==
    /\ LastIsRemove
    /\ pc # "panicked"
    /\ Last.count = 2
    /\ Len(indexes) >= 2
    /\ Len(indexes[RangeStart(RemoveIdx(Before)) + 1]) = 2
    /\ Len(indexes) = Len(Before.indexes) - 1

----------------------------------------------------------------------------
(* Properties of the resolution phase (SpecFile) *)

\* What resolving each source of the file gives, in the order base, then
\* the patches of the list.
AllKinds ==
    <<file.source.kind>> \o [j \in 1..Len(file.patch) |-> ResolveKind(file.patch[j])]

\* The position in AllKinds of the first source that does not resolve
\* (0 when all resolve).
FirstFailure ==
    IF \E j \in 1..Len(AllKinds) : AllKinds[j] # "ok"
    THEN CHOOSE j \in 1..Len(AllKinds) :
             /\ AllKinds[j] # "ok"
             /\ \A h \in 1..(j - 1) : AllKinds[h] = "ok"
    ELSE 0

\* The first n patches of the file, resolved, in list order.
ResolvedPrefix(n) == [j \in 1..n |-> ResolvedPatch(file.patch[j])]

(* C27: do_patch resolves the base source and then the source of every     *)
(* patch, in list order, before it applies any edit; when a resolution     *)
(* fails with an error, do_patch returns that error and no edit has been   *)
(* applied to the buffer.                                                  *)
C27_ResolveBeforeApply ==
    /\ Len(resolved) <= Len(file.patch)
    /\ resolved = ResolvedPrefix(Len(resolved))
    /\ (pc \in {"apply", "done"} \/ patches # <<>>) =>
           /\ FirstFailure = 0
           /\ Len(resolved) = Len(file.patch)
    /\ pc = "err" =>
           /\ FirstFailure >= 1
           /\ AllKinds[FirstFailure] = "err"
           /\ Len(resolved) = IF FirstFailure = 1 THEN 0 ELSE FirstFailure - 2
           /\ patches = <<>>
           /\ indexes = <<>>
           /\ file_source = IF FirstFailure = 1 THEN <<>> ELSE original
    /\ (FirstFailure >= 1 /\ AllKinds[FirstFailure] = "err") =>
           pc \in {"resolve_base", "resolve_patch", "err"}

\* The source of the second patch failed to resolve after the base and an
\* Insert before it had resolved.
C27_Witness ==
    /\ pc = "err"
    /\ Len(file.patch) = 2
    /\ file.patch[1].do = "insert"
    /\ file.patch[1].source.kind = "ok"
    /\ ResolveKind(file.patch[2]) = "err"
    /\ resolved = <<ResolvedPatch(file.patch[1])>>
    /\ patches = <<>>
    /\ original # <<>>
    /\ file_source = original

----------------------------------------------------------------------------
(* Properties of pairs and of whole runs (Spec) *)

\* The original offsets an edit touches on the unedited buffer: the bytes
\* on both sides of the place of an Insert; the byte a Remove is counted
\* from and the bytes it deletes.
Region(p) ==
    IF p.do = "insert" THEN {p.spot - 1, p.spot}
    ELSE IF p.way = "post" THEN p.spot..(p.spot + p.count)
    ELSE (p.spot - p.count)..p.spot

\* Two edits, at least one a Remove, each of which alone is applied to the
\* unedited buffer, on disjoint regions of the original.
DisjointPair ==
    /\ Len(patches) = 2
    /\ patches[1].do = "remove" \/ patches[2].do = "remove"
    /\ \A j \in 1..2 : ~Rerun(<<patches[j]>>).panicked
    /\ Region(patches[1]) \cap Region(patches[2]) = {}

(* C28: two edits on disjoint regions of the original, at least one of     *)
(* them a Remove, give the same outcome in both list orders: the same      *)
(* final buffer, or a failure in both.                                     *)
C28_DisjointCommute ==
    DisjointPair =>
        LET a == Rerun(patches)
            b == Rerun(<<patches[2], patches[1]>>)
        IN  /\ a.panicked = b.panicked
            /\ ~a.panicked => a.source = b.source

\* The total length of the payloads of the Inserts, and the total of the
\* counts of the Removes, of a list.
RECURSIVE InsertedLen(_)
InsertedLen(ps) ==
    IF ps = <<>> THEN 0 ELSE Len(Head(ps).source) + InsertedLen(Tail(ps))

RECURSIVE RemovedCount(_)
RemovedCount(ps) ==
    IF ps = <<>> THEN 0 ELSE Head(ps).count + RemovedCount(Tail(ps))

(* C29: when do_patch returns Ok, the length of the returned buffer is the *)
(* original length plus the total length of the inserted payloads minus    *)
(* the sum of the Remove counts.                                           *)
C29_LengthAccounting ==
    Returned =>
        Len(file_source) = N + InsertedLen(patches) - RemovedCount(patches)

\* A returned run with an Insert of a non-empty payload and a Remove of at
\* least one byte.
C29_Witness ==
    /\ Returned
    /\ Len(patches) = 2
    /\ InsertedLen(patches) >= 1
    /\ RemovedCount(patches) >= 1
    /\ Len(file_source) = N + InsertedLen(patches) - RemovedCount(patches)

\* seq with the k elements after its first at elements taken out.
Cut(seq, at, k) == SubSeq(seq, 1, at) \o SubSeq(seq, at + k + 1, Len(seq))

(* C30: each edit that is applied changes only the bytes it names: after   *)
(* an Insert the buffer is the buffer before it with the payload put in at *)
(* one place, and after a Remove it is the buffer before it with count     *)
(* consecutive bytes taken out; all other bytes are there, unchanged and   *)
(* in the same order.                                                      *)
C30_FrameOfEdit ==
    (Len(patches) >= 1 /\ pc # "panicked") =>
        LET b == Before
        IN  IF Last.do = "insert"
            THEN /\ Len(file_source) = Len(b.source) + Len(Last.source)
                 /\ Len(prov) = Len(file_source)
                 /\ \E at \in 0..Len(b.source) :
                        /\ SubSeq(file_source, at + 1, at + Len(Last.source)) = Last.source
                        /\ Cut(file_source, at, Len(Last.source)) = b.source
                        /\ Cut(prov, at, Len(Last.source)) = b.prov
            ELSE /\ Len(file_source) = Len(b.source) - Last.count
                 /\ Len(prov) = Len(file_source)
                 /\ \E at \in 0..Len(file_source) :
                        /\ Cut(b.source, at, Last.count) = file_source
                        /\ Cut(b.prov, at, Last.count) = prov

\* An Insert of a non-empty payload was applied between two bytes of a
\* buffer that an earlier Remove had shortened.
C30_Witness ==
    /\ Len(patches) = 2
    /\ pc # "panicked"
    /\ patches[1].do = "remove"
    /\ patches[1].count >= 1
    /\ Last.do = "insert"
    /\ Last.source # <<>>
    /\ Before.source # <<>>
    /\ Len(file_source) = Len(Before.source) + Len(Last.source)

====
